---- MODULE Spec2Model ----
(***************************************************************************)
(* Model of the popup-subscription webhook handlers of Webhook-coupon.     *)
(*                                                                         *)
(* The repository holds four handler variants:                             *)
(*   "createOnly"  src/api/webhook.js   lines   4-74  (create, no search)  *)
(*   "upsert"      src/api/webhook.js   lines 109-365 (search, then upsert)*)
(*   "part000"     src/unnamed/part_000 lines   1-231                      *)
(*   "part001"     src/unnamed/part_001 lines   1-164                      *)
(*                                                                         *)
(* One behaviour is one invocation of one variant.  An action is the code  *)
(* the handler runs between two awaits: Post runs from entry up to the     *)
(* first fetch (or to a response), and SearchResolves / UpdateResolves /   *)
(* CreateResolves run from the settlement of that fetch up to the next     *)
(* fetch or to the response.                                               *)
(*                                                                         *)
(* Strings are sequences of atoms: an e-mail address is a sequence of      *)
(* characters, a tag string a sequence of labels and "," separators, an    *)
(* error message a sequence of words.  The free-text fields source and     *)
(* discount_code only feed the note and the metafields of the create body  *)
(* and decide no branch; they are left out of the request and of the call. *)
(***************************************************************************)
EXTENDS Integers, Sequences, FiniteSets, TLC

VARIABLES
    variant,           \* which handler is deployed
    env,               \* process.env: which credentials are set
    req,               \* the request being handled: [method, body]
    pc,                \* where the invocation stands
    existingCustomer,  \* the handler's local `existingCustomer`
    calls,             \* outbound fetch calls issued, in order
    results,           \* how each call settled, in order (a prefix of calls)
    responses,         \* responses sent on `res`, in order
    remote,            \* the platform's customers, when invocations share it
    inv                \* the state of each of several concurrent invocations

\* The variables of concurrent invocations; one invocation alone leaves them be.
shared == <<remote, inv>>

vars == <<variant, env, req, pc, existingCustomer, calls, results, responses, shared>>

-----------------------------------------------------------------------------
(* Bounds *)

\* The longest customer list a search response carries.
MaxCust == 2

\* How many invocations run concurrently against one platform.
MaxInv == 2

-----------------------------------------------------------------------------
(* JavaScript values *)

Undefined == [t |-> "undef", s |-> <<>>]
Str(s) == [t |-> "str", s |-> s]

\* `!v` for undefined and strings: undefined and "" are falsy.
IsFalsy(v) == v.t = "undef" \/ v.s = <<>>

\* String(v) inside a template literal: undefined prints as "undefined".
ToStr(v) == IF v.t = "undef" THEN <<"undefined">> ELSE v.s

\* a || b
OrElse(a, b) == IF IsFalsy(a) THEN b ELSE a

-----------------------------------------------------------------------------
(* Inputs *)

Variants == {"createOnly", "upsert", "part000", "part001"}

Envs == [domain : BOOLEAN, token : BOOLEAN]

\* Request methods other than OPTIONS and POST.
OtherMethods == {"GET", "PUT", "DELETE"}

\* E-mail strings, as character sequences: one well-formed address and the
\* ways of breaking it (no "@", no "." after the "@", empty parts, a space,
\* a second "@"), the empty string, and a dotted domain.
EmailTexts ==
    { <<"a", "@", "b", ".", "c">>,
      <<"a", "@", "b", ".", "c", ".", "d">>,
      <<"a", "b", ".", "c">>,
      <<"a", "@", "b", "c">>,
      <<"@", "b", ".", "c">>,
      <<"a", "@", ".", "c">>,
      <<"a", "@", "b", ".">>,
      <<"a", " ", "@", "b", ".", "c">>,
      <<"a", "@", "@", "b", ".", "c">>,
      <<>> }

EmailValues == {Undefined} \cup {Str(e) : e \in EmailTexts}

TagValues == {Undefined, Str(<<>>), Str(<<"vip">>)}

Payloads == [email : EmailValues, tags : TagValues]

NoPayload == [email |-> Undefined, tags |-> Undefined]

\* req.body as the runtime hands it over: undefined, null, a string that is
\* not JSON, a string holding the JSON text of an object, or an object.
Bodies ==
    { [kind |-> "undefined", payload |-> NoPayload],
      [kind |-> "null", payload |-> NoPayload],
      [kind |-> "badString", payload |-> NoPayload] }
    \cup [kind : {"jsonString", "object"}, payload : Payloads]

NoReq == [method |-> "none", body |-> [kind |-> "undefined", payload |-> NoPayload]]

\* Customers of the remote platform: distinct ids, a tag string each.
CustomerIds == 1..MaxCust

CustomerTags == {Str(<<>>), Str(<<"gold">>)}

Customers == [id : CustomerIds, tags : CustomerTags]

NoCustomer == [id |-> 0, tags |-> Undefined]

RECURSIVE SeqsUpTo(_, _)
SeqsUpTo(S, n) ==
    IF n = 0 THEN {<<>>}
    ELSE LET shorter == SeqsUpTo(S, n - 1)
         IN  shorter \cup {Append(q, x) : q \in {p \in shorter : Len(p) = n - 1}, x \in S}

DistinctIds(cs) == \A i, j \in 1..Len(cs) : i # j => cs[i].id # cs[j].id

CustomerLists == {cs \in SeqsUpTo(Customers, MaxCust) : DistinctIds(cs)}

\* The id the platform gives a customer it creates.
FreshId == MaxCust + 1

\* Upstream error bodies, as words.
ErrorBodies == { <<"email", "taken">>, <<"request", "422", "rejected">> }

NoBody == <<>>

\* How a fetch settles: it rejects (thrown), or resolves with a response.
\* `has` tells whether the search JSON has a `customers` member.
Thrown ==
    [thrown |-> TRUE, status |-> 0, has |-> FALSE, customers |-> <<>>,
     body |-> NoBody, newId |-> 0]

Response(status, has, customers, body, newId) ==
    [thrown |-> FALSE, status |-> status, has |-> has, customers |-> customers,
     body |-> body, newId |-> newId]

SearchOutcomes ==
    {Thrown}
    \cup {Response(500, FALSE, <<>>, b, 0) : b \in ErrorBodies}
    \cup {Response(200, FALSE, <<>>, NoBody, 0)}
    \cup {Response(200, TRUE, cs, NoBody, 0) : cs \in CustomerLists}

UpdateOutcomes ==
    {Thrown, Response(200, FALSE, <<>>, NoBody, 0)}
    \cup {Response(500, FALSE, <<>>, b, 0) : b \in ErrorBodies}

CreateOutcomes ==
    {Thrown, Response(201, FALSE, <<>>, NoBody, FreshId)}
    \cup {Response(s, FALSE, <<>>, b, 0) : s \in {422, 500}, b \in ErrorBodies}

-----------------------------------------------------------------------------
(* Pure helpers of the handlers *)

\* /^[^\s@]+@[^\s@]+\.[^\s@]+$/.test(email): the string splits as
\* A "@" B "." C with A, B, C non-empty and free of whitespace and "@".
isValidEmail(email) ==
    LET s == ToStr(email)
        plain(c) == c \notin {" ", "@"}
    IN  \E i, j \in 1..Len(s) :
            /\ s[i] = "@"
            /\ s[j] = "."
            /\ 1 < i
            /\ i + 1 < j
            /\ j < Len(s)
            /\ \A k \in 1..Len(s) : k # i => plain(s[k])

\* response.ok
ResponseOk(out) == out.status \in 200..299

\* The tag strings the handlers fall back to.
DefaultTags3 == Str(<<"newsletter", ",", "discount-popup", ",", "popup-subscriber">>)

DefaultTags2 == Str(<<"newsletter", ",", "discount-popup">>)

\* `${a},${b}`
Joined(a, b) == Str(ToStr(a) \o <<",">> \o ToStr(b))

\* `Shopify API Error: ${status} - ${body}` and `Shopify API Error: ${status}`
ApiErrorFull(out) == <<"Shopify API Error:", ToString(out.status), "-">> \o out.body

ApiErrorStatus(out) == <<"Shopify API Error:", ToString(out.status)>>

\* The messages of the errors the runtime throws.
FetchFailed == <<"fetch", "failed">>

TypeErrorMessage == <<"Cannot", "destructure", "property", "email">>

\* error.message.includes('422')
Includes422(msg) == \E i \in 1..Len(msg) : msg[i] = "422"

-----------------------------------------------------------------------------
(* Outbound calls and responses *)

\* A fetch call: the search carries the e-mail in its query, the update the
\* customer id in its URL and in its body, the create the e-mail in its body.
SearchCall(email) ==
    [kind |-> "search", email |-> email, urlId |-> 0, bodyId |-> 0, tags |-> Undefined]

UpdateCall(id, tags) ==
    [kind |-> "update", email |-> Undefined, urlId |-> id, bodyId |-> id, tags |-> tags]

CreateCall(email, tags) ==
    [kind |-> "create", email |-> email, urlId |-> 0, bodyId |-> 0, tags |-> tags]

NoCall == [kind |-> "none", email |-> Undefined, urlId |-> 0, bodyId |-> 0, tags |-> Undefined]

\* customer_id: a customer's numeric id, its admin_graphql_api_id, or absent.
NoId == [gid |-> FALSE, n |-> 0]

PlainId(n) == [gid |-> FALSE, n |-> n]

Gid(n) == [gid |-> TRUE, n |-> n]

\* res.status(status).json({success, error, details, existing_customer,
\* customer_id}); "absent", <<>> and NoId stand for a member the object lacks.
Resp(status, success, error, details, existing, id) ==
    [status |-> status, success |-> success, error |-> error, details |-> details,
     existing_customer |-> existing, customer_id |-> id]

NoResp == Resp(0, "absent", "absent", <<>>, "absent", NoId)

\* What a run of handler code ends with: a response, or a fetch it awaits.
Reply(r) == [kind |-> "respond", response |-> r, call |-> NoCall, customer |-> NoCustomer]

Issue(c, cust) == [kind |-> "call", response |-> NoResp, call |-> c, customer |-> cust]

-----------------------------------------------------------------------------
(* Entry: method check, body, validation, configuration *)

\* Reading the fields out of req.body.  The upsert variant and part_000
\* JSON.parse a string body; the other two destructure req.body as it is,
\* and a string has no email member.  Destructuring undefined or null throws
\* a TypeError; the upsert variant rejects them as a parse failure first.
ReadBody(v, body) ==
    CASE body.kind = "object" ->
            [outcome |-> "ok", payload |-> body.payload]
      [] body.kind = "jsonString" ->
            IF v \in {"upsert", "part000"}
            THEN [outcome |-> "ok", payload |-> body.payload]
            ELSE [outcome |-> "ok", payload |-> NoPayload]
      [] body.kind = "badString" ->
            IF v \in {"upsert", "part000"}
            THEN [outcome |-> "parseError", payload |-> NoPayload]
            ELSE [outcome |-> "ok", payload |-> NoPayload]
      [] OTHER ->
            IF v = "upsert"
            THEN [outcome |-> "parseError", payload |-> NoPayload]
            ELSE [outcome |-> "typeError", payload |-> NoPayload]

\* The fields the handler works with after Entry let the request through.
Fields(v, body) == ReadBody(v, body).payload

\* The response of the catch block that an exception with message msg reaches.
Caught(v, msg) ==
    CASE v = "createOnly" ->
            IF Includes422(msg)
            THEN Resp(200, "true", "absent", <<>>, "absent", NoId)
            ELSE Resp(500, "absent", "Failed to create customer", msg, "absent", NoId)
      [] v = "upsert" ->
            Resp(500, "absent", "Shopify API request failed", msg, "absent", NoId)
      [] v = "part000" ->
            Resp(500, "false", "Internal server error", msg, "absent", NoId)
      [] OTHER ->
            Resp(500, "absent", "Internal server error", msg, "absent", NoId)

ParseFailure(v) ==
    IF v = "part000"
    THEN Resp(400, "false", "Invalid JSON in request body", <<"Unexpected", "token">>, "absent", NoId)
    ELSE Resp(400, "absent", "Invalid JSON in request body", <<"Unexpected", "token">>, "absent", NoId)

\* The validation of the email field: the response it rejects with, or
\* NoResp when it lets the request through.
EmailCheck(v, email) ==
    CASE v = "createOnly" ->
            IF IsFalsy(email) \/ ~isValidEmail(email)
            THEN Resp(400, "absent", "Invalid email address", <<>>, "absent", NoId)
            ELSE NoResp
      [] v = "upsert" ->
            IF IsFalsy(email)
            THEN Resp(400, "absent", "Email is required", <<>>, "absent", NoId)
            ELSE IF ~isValidEmail(email)
            THEN Resp(400, "absent", "Invalid email format", <<>>, "absent", NoId)
            ELSE NoResp
      [] v = "part000" ->
            IF IsFalsy(email)
            THEN Resp(400, "false", "Email is required", <<>>, "absent", NoId)
            ELSE IF ~isValidEmail(email)
            THEN Resp(400, "false", "Invalid email format", <<>>, "absent", NoId)
            ELSE NoResp
      [] OTHER ->
            IF IsFalsy(email)
            THEN Resp(400, "absent", "Email is required", <<>>, "absent", NoId)
            ELSE NoResp

\* !shopifyDomain || !accessToken
ConfigMissingBoth(e) == ~e.domain /\ ~e.token

ConfigMissing(e) == ~e.domain \/ ~e.token

ConfigFailure(v) ==
    CASE v = "createOnly" ->
            Resp(500, "absent", "Missing Shopify configuration", <<>>, "absent", NoId)
      [] v = "upsert" ->
            Resp(500, "absent", "Webhook configuration error",
                 <<"Missing", "Shopify", "credentials">>, "absent", NoId)
      [] v = "part000" ->
            Resp(500, "false", "Server configuration error",
                 <<"Missing", "required", "environment", "variables">>, "absent", NoId)
      [] OTHER ->
            Resp(500, "absent", "Webhook configuration error",
                 <<"Missing", "Shopify", "credentials">>, "absent", NoId)

\* The tags of the create body.
CreateTags(v, tags) ==
    CASE v = "part000" -> DefaultTags3
      [] v = "part001" -> OrElse(tags, DefaultTags2)
      [] OTHER -> OrElse(tags, DefaultTags3)

\* The first fetch of a request that passed the checks.
FirstCall(v, p) ==
    IF v = "createOnly"
    THEN CreateCall(p.email, CreateTags(v, p.tags))
    ELSE SearchCall(p.email)

\* The handler from `try {` to its first await or response, for a POST.
Entry(v, e, body) ==
    LET read == ReadBody(v, body)
        p == read.payload
    IN  CASE read.outcome = "parseError" -> Reply(ParseFailure(v))
          [] read.outcome = "typeError" -> Reply(Caught(v, TypeErrorMessage))
          [] EmailCheck(v, p.email) # NoResp -> Reply(EmailCheck(v, p.email))
          [] ConfigMissing(e) -> Reply(ConfigFailure(v))
          [] OTHER -> Issue(FirstCall(v, p), NoCustomer)

-----------------------------------------------------------------------------
(* The state machine *)

AwaitOf(kind) ==
    CASE kind = "search" -> "awaitSearch"
      [] kind = "update" -> "awaitUpdate"
      [] OTHER -> "awaitCreate"

\* Carry out what a run of handler code ended with.
DoWithoutReturn(step) ==
    IF step.kind = "respond"
    THEN /\ responses' = Append(responses, step.response)
         /\ UNCHANGED <<pc, calls, existingCustomer>>
    ELSE /\ calls' = Append(calls, step.call)
         /\ pc' = AwaitOf(step.call.kind)
         /\ existingCustomer' = step.customer
         /\ UNCHANGED responses

Do(step) ==
    IF step.kind = "respond"
    THEN /\ responses' = Append(responses, step.response)
         /\ pc' = "done"
         /\ UNCHANGED <<calls, existingCustomer>>
    ELSE /\ calls' = Append(calls, step.call)
         /\ pc' = AwaitOf(step.call.kind)
         /\ existingCustomer' = step.customer
         /\ UNCHANGED responses

Init ==
    /\ variant \in Variants
    /\ env \in Envs
    /\ req = NoReq
    /\ pc = "idle"
    /\ existingCustomer = NoCustomer
    /\ calls = <<>>
    /\ results = <<>>
    /\ responses = <<>>
    /\ remote = <<>>
    /\ inv = <<>>

\* A preflight request: res.status(200).end().
Options ==
    /\ pc = "idle"
    /\ req' = [method |-> "OPTIONS", body |-> NoReq.body]
    /\ Do(Reply(Resp(200, "absent", "absent", <<>>, "absent", NoId)))
    /\ UNCHANGED <<variant, env, results, shared>>

\* Any method other than OPTIONS and POST: 405.
MethodNotAllowed ==
    /\ pc = "idle"
    /\ \E m \in OtherMethods : req' = [method |-> m, body |-> NoReq.body]
    /\ Do(Reply(Resp(405, "absent", "Method not allowed", <<>>, "absent", NoId)))
    /\ UNCHANGED <<variant, env, results, shared>>

\* A POST request with body `body`.
Post ==
    /\ pc = "idle"
    /\ \E body \in Bodies :
          /\ req' = [method |-> "POST", body |-> body]
          /\ Do(Entry(variant, env, body))
    /\ UNCHANGED <<variant, env, results, shared>>

-----------------------------------------------------------------------------
(* After the search *)

\* searchResponse.ok
SearchSucceededUnchecked(out) == ~out.thrown

SearchSucceeded(out) == ResponseOk(out)

SearchFailure(v, out) ==
    CASE v = "part000" ->
            Resp(500, "false", "Failed to search customers", ApiErrorStatus(out), "absent", NoId)
      [] OTHER ->
            Resp(500, "absent", "Failed to search for existing customer",
                 ApiErrorFull(out), "absent", NoId)

\* searchData.customers && searchData.customers.length > 0
CustomersFoundLax(out) == out.has

CustomersFound(out) == out.has /\ Len(out.customers) > 0

\* searchData.customers[0]; indexing past the end gives undefined.
LastCustomer(cs) == IF Len(cs) > 0 THEN cs[Len(cs)] ELSE NoCustomer

FirstCustomer(cs) == IF Len(cs) > 0 THEN cs[1] ELSE NoCustomer

\* The tags of the update body.
UpdateTags(v, existing, tags) ==
    CASE v = "upsert" ->
            LET existingTags == OrElse(existing, Str(<<>>))
                newTags == OrElse(tags, DefaultTags3)
            IN  IF IsFalsy(existingTags) THEN newTags ELSE Joined(existingTags, newTags)
      [] v = "part000" ->
            IF IsFalsy(existing) THEN DefaultTags3 ELSE Joined(existing, DefaultTags3)
      [] OTHER ->
            IF IsFalsy(existing) THEN tags ELSE Joined(existing, tags)

\* The handler from the settlement of the search to its next await or response.
AfterSearch(v, p, out) ==
    CASE out.thrown -> Reply(Caught(v, FetchFailed))
      [] ~SearchSucceeded(out) -> Reply(SearchFailure(v, out))
      [] CustomersFound(out) ->
            LET c == FirstCustomer(out.customers)
            IN  IF c = NoCustomer
                THEN Reply(Caught(v, TypeErrorMessage))
                ELSE Issue(UpdateCall(c.id, UpdateTags(v, c.tags, p.tags)), c)
      [] OTHER -> Issue(CreateCall(p.email, CreateTags(v, p.tags)), NoCustomer)

-----------------------------------------------------------------------------
(* After the update *)

\* updateResponse.ok
UpdateSucceededInverted(out) == ~ResponseOk(out)

UpdateSucceeded(out) == ResponseOk(out)

UpdateSuccess(v, c) ==
    CASE v = "part001" -> Resp(200, "true", "absent", <<>>, "absent", Gid(c.id))
      [] OTHER -> Resp(200, "true", "absent", <<>>, "true", PlainId(c.id))

\* The handler from the settlement of the update to its next await or
\* response: a failed update falls through to the create.
AfterUpdate(v, p, c, out) ==
    CASE out.thrown -> Reply(Caught(v, FetchFailed))
      [] UpdateSucceeded(out) -> Reply(UpdateSuccess(v, c))
      [] OTHER -> Issue(CreateCall(p.email, CreateTags(v, p.tags)), NoCustomer)

-----------------------------------------------------------------------------
(* After the create *)

\* createResponse.ok
CreateSucceeded(out) == ResponseOk(out)

CreateSuccess(v, out) ==
    CASE v = "createOnly" -> Resp(200, "true", "absent", <<>>, "absent", PlainId(out.newId))
      [] v = "part001" -> Resp(200, "true", "absent", <<>>, "absent", Gid(out.newId))
      [] OTHER -> Resp(200, "true", "absent", <<>>, "false", PlainId(out.newId))

\* The create-only variant throws `Shopify API Error: status - body` out of
\* createShopifyCustomer and answers from its catch block.
CreateFailure(v, out) ==
    CASE v = "createOnly" -> Caught(v, ApiErrorFull(out))
      [] v = "part000" ->
            Resp(500, "false", "Failed to create customer", ApiErrorStatus(out), "absent", NoId)
      [] OTHER ->
            Resp(500, "absent", "Failed to create customer", ApiErrorFull(out), "absent", NoId)

\* The handler from the settlement of the create to its response.
AfterCreate(v, out) ==
    CASE out.thrown -> Reply(Caught(v, FetchFailed))
      [] CreateSucceeded(out) -> Reply(CreateSuccess(v, out))
      [] OTHER -> Reply(CreateFailure(v, out))

-----------------------------------------------------------------------------
(* The settlements of the fetches *)

SearchResolves ==
    /\ pc = "awaitSearch"
    /\ \E out \in SearchOutcomes :
          /\ results' = Append(results, out)
          /\ Do(AfterSearch(variant, Fields(variant, req.body), out))
    /\ UNCHANGED <<variant, env, req, shared>>

UpdateResolves ==
    /\ pc = "awaitUpdate"
    /\ \E out \in UpdateOutcomes :
          /\ results' = Append(results, out)
          /\ Do(AfterUpdate(variant, Fields(variant, req.body), existingCustomer, out))
    /\ UNCHANGED <<variant, env, req, shared>>

CreateResolves ==
    /\ pc = "awaitCreate"
    /\ \E out \in CreateOutcomes :
          /\ results' = Append(results, out)
          /\ Do(AfterCreate(variant, out))
    /\ UNCHANGED <<variant, env, req, shared>>

Next ==
    \/ Options
    \/ MethodNotAllowed
    \/ Post
    \/ SearchResolves
    \/ UpdateResolves
    \/ CreateResolves

Spec == Init /\ [][Next]_vars

\* Every fetch the handler awaits settles: it resolves or it rejects.
FairSpec ==
    /\ Spec
    /\ WF_vars(SearchResolves)
    /\ WF_vars(UpdateResolves)
    /\ WF_vars(CreateResolves)

-----------------------------------------------------------------------------
(* Concurrent invocations against one platform *)

(***************************************************************************)
(* Several invocations of one searching variant handle the same POST at    *)
(* the same time.  They share nothing but the platform, whose customers    *)
(* are `remote`.  The platform answers every call with success and accepts *)
(* every create, so the interleaving alone decides the outcome.  A step is *)
(* the platform serving the fetch an invocation awaits, followed by that   *)
(* invocation's code up to its next await or response.                     *)
(***************************************************************************)
Invocations == 1..MaxInv

\* The variants that search before they write.
SearchingVariants == Variants \ {"createOnly"}

RaceEmail == Str(<<"a", "@", "b", ".", "c">>)

RaceRequests ==
    {[method |-> "POST",
      body |-> [kind |-> "object", payload |-> [email |-> RaceEmail, tags |-> t]]] :
        t \in TagValues}

\* The platform starts with no customer, or with one, for the e-mail.
InitialRemotes ==
    {<<>>} \cup {<<[id |-> 1, email |-> RaceEmail, tags |-> t]>> : t \in CustomerTags}

\* The variables of one invocation.
single == <<pc, existingCustomer, calls, results, responses>>

Idle ==
    [pc |-> "idle", existingCustomer |-> NoCustomer, calls |-> <<>>,
     results |-> <<>>, responses |-> <<>>]

\* GET customers/search.json?query=email:<email>
RECURSIVE SearchRemote(_, _)
SearchRemote(store, email) ==
    IF store = <<>> THEN <<>>
    ELSE LET c == Head(store)
             rest == SearchRemote(Tail(store), email)
         IN  IF c.email = email THEN <<[id |-> c.id, tags |-> c.tags]>> \o rest ELSE rest

\* PUT customers/<id>.json; JSON.stringify leaves an undefined tags out.
UpdateRemote(store, call) ==
    [k \in 1..Len(store) |->
        IF store[k].id = call.urlId /\ call.tags # Undefined
        THEN [store[k] EXCEPT !.tags = call.tags]
        ELSE store[k]]

\* POST customers.json, accepted: the platform files a customer under a new id.
CreateRemote(store, call) ==
    Append(store, [id |-> Len(store) + 1, email |-> call.email, tags |-> call.tags])

\* An invocation's state after its awaited fetch settled with out.
Settled(st, out) == [st EXCEPT !.results = Append(@, out)]

\* An invocation's state after a run of handler code ended with step.
Advance(st, step) ==
    IF step.kind = "respond"
    THEN [st EXCEPT !.responses = Append(@, step.response), !.pc = "done"]
    ELSE [st EXCEPT !.calls = Append(@, step.call),
                    !.pc = AwaitOf(step.call.kind),
                    !.existingCustomer = step.customer]

Awaited(i) == inv[i].calls[Len(inv[i].calls)]

RaceInit ==
    /\ variant \in SearchingVariants
    /\ env = [domain |-> TRUE, token |-> TRUE]
    /\ req \in RaceRequests
    /\ pc = "idle"
    /\ existingCustomer = NoCustomer
    /\ calls = <<>>
    /\ results = <<>>
    /\ responses = <<>>
    /\ remote \in InitialRemotes
    /\ inv = [i \in Invocations |-> Idle]

\* Invocation i receives the request and runs up to its search fetch.
RaceArrive(i) ==
    /\ inv[i].pc = "idle"
    /\ inv' = [inv EXCEPT ![i] = Advance(@, Entry(variant, env, req.body))]
    /\ UNCHANGED <<variant, env, req, single, remote>>

\* The platform answers the search of invocation i from its customers.
RaceSearch(i) ==
    /\ inv[i].pc = "awaitSearch"
    /\ LET out == Response(200, TRUE, SearchRemote(remote, Awaited(i).email), NoBody, 0)
       IN  inv' = [inv EXCEPT ![i] =
                      Advance(Settled(@, out),
                              AfterSearch(variant, Fields(variant, req.body), out))]
    /\ UNCHANGED <<variant, env, req, single, remote>>

\* The platform applies the update of invocation i.
RaceUpdate(i) ==
    /\ inv[i].pc = "awaitUpdate"
    /\ remote' = UpdateRemote(remote, Awaited(i))
    /\ LET out == Response(200, FALSE, <<>>, NoBody, 0)
       IN  inv' = [inv EXCEPT ![i] =
                      Advance(Settled(@, out),
                              AfterUpdate(variant, Fields(variant, req.body),
                                          inv[i].existingCustomer, out))]
    /\ UNCHANGED <<variant, env, req, single>>

\* The platform accepts the create of invocation i.
RaceCreate(i) ==
    /\ inv[i].pc = "awaitCreate"
    /\ remote' = CreateRemote(remote, Awaited(i))
    /\ LET out == Response(201, FALSE, <<>>, NoBody, Len(remote) + 1)
       IN  inv' = [inv EXCEPT ![i] = Advance(Settled(@, out), AfterCreate(variant, out))]
    /\ UNCHANGED <<variant, env, req, single>>

RaceNext ==
    \/ \E i \in Invocations : RaceArrive(i)
    \/ \E i \in Invocations : RaceSearch(i)
    \/ \E i \in Invocations : RaceUpdate(i)
    \/ \E i \in Invocations : RaceCreate(i)

SpecRace == RaceInit /\ [][RaceNext]_vars

-----------------------------------------------------------------------------
(* Vocabulary of the properties *)

Done == pc = "done"

IsPost == req.method = "POST"

\* The request is a POST whose body is a JSON object.
ObjectPost == IsPost /\ req.body.kind = "object"

RequestEmail == req.body.payload.email

RequestTags == req.body.payload.tags

CredentialsPresent == env.domain /\ env.token

\* Call i has settled with a response (the fetch did not reject).
Answered(i) == i <= Len(results) /\ ~results[i].thrown

AnsweredOk(i) == Answered(i) /\ results[i].status \in 200..299

AnsweredNotOk(i) == Answered(i) /\ results[i].status \notin 200..299

CallsOf(kind) == {i \in 1..Len(calls) : calls[i].kind = kind}

\* The invocation searched, and the search was answered.
SearchAnsweredOk == 1 \in CallsOf("search") /\ AnsweredOk(1)

SearchAnsweredNotOk == 1 \in CallsOf("search") /\ AnsweredNotOk(1)

FoundCustomers == IF results[1].has THEN results[1].customers ELSE <<>>

\* msg holds the words ws, in order and side by side.
Holds(msg, ws) ==
    \E k \in 0..(Len(msg) - Len(ws)) : \A i \in 1..Len(ws) : msg[k + i] = ws[i]

\* The details of response r name the upstream status of result out.
NamesStatus(r, out) == Holds(r.details, <<"Shopify API Error:", ToString(out.status)>>)

\* An update was issued for a found customer and was answered non-success.
UpdateAnsweredNotOk == 2 \in CallsOf("update") /\ AnsweredNotOk(2)

-----------------------------------------------------------------------------
(* The claims *)

\* C1: whenever the customer search is answered with a non-success response,
\* the invocation is over with exactly one response, of status 500, whose
\* details name the upstream status, and no update and no create call has
\* been issued.
C1_SearchFailureIsTerminal ==
    SearchAnsweredNotOk =>
        /\ Done
        /\ Len(responses) = 1
        /\ responses[1].status = 500
        /\ NamesStatus(responses[1], results[1])
        /\ CallsOf("update") = {}
        /\ CallsOf("create") = {}

\* C1 witness: a POST with a well-formed email and both credentials set, whose
\* search was answered 500.
C1_Witness ==
    /\ ObjectPost
    /\ isValidEmail(RequestEmail)
    /\ CredentialsPresent
    /\ SearchAnsweredNotOk
    /\ results[1].status = 500
    /\ Done

\* C2: whenever the search is answered with success and zero customers (an
\* empty or an absent customers list), exactly one create call and no update
\* call has been issued.
C2_NoCustomerCreates ==
    (SearchAnsweredOk /\ FoundCustomers = <<>>) =>
        /\ Cardinality(CallsOf("create")) = 1
        /\ CallsOf("update") = {}

\* C2 witness: the search found an empty customers list, the create call went
\* out and was answered.
C2_Witness ==
    /\ SearchAnsweredOk
    /\ results[1].has
    /\ results[1].customers = <<>>
    /\ calls[2].kind = "create"
    /\ AnsweredOk(2)
    /\ Done

\* C3: whenever the search is answered with success and one or more
\* customers, an update call has been issued whose URL id and body id are the
\* id of the first customer, and no call carries the id of a customer at a
\* later position of the list.
C3_UpdateTargetsFirst ==
    (SearchAnsweredOk /\ FoundCustomers # <<>>) =>
        /\ \E i \in CallsOf("update") :
              /\ calls[i].urlId = FoundCustomers[1].id
              /\ calls[i].bodyId = FoundCustomers[1].id
        /\ \A i \in 1..Len(calls) : \A k \in 2..Len(FoundCustomers) :
              /\ calls[i].urlId # FoundCustomers[k].id
              /\ calls[i].bodyId # FoundCustomers[k].id

\* C3 witness: the search found two customers and the update was answered.
C3_Witness ==
    /\ SearchAnsweredOk
    /\ Len(FoundCustomers) = 2
    /\ calls[2].kind = "update"
    /\ AnsweredOk(2)
    /\ Done

\* C4 (as claimed): when the update of a found customer is answered
\* non-success, no response is sent at that point, a create call for the
\* request's email is issued, and once the create is answered the response is
\* 200 with existing_customer false on success and 500 on failure.
C4_FallThroughDecidedByCreate ==
    UpdateAnsweredNotOk =>
        /\ Len(calls) = 3
        /\ calls[3].kind = "create"
        /\ calls[3].email = calls[1].email
        /\ Len(results) = 2 => responses = <<>>
        /\ AnsweredOk(3) =>
              /\ Len(responses) = 1
              /\ responses[1].status = 200
              /\ responses[1].existing_customer = "false"
        /\ AnsweredNotOk(3) =>
              /\ Len(responses) = 1
              /\ responses[1].status = 500

ConfigurationErrors ==
    {"Missing Shopify configuration", "Webhook configuration error",
     "Server configuration error"}

C6_MalformedEmailRejected ==
    (ObjectPost /\ ~IsFalsy(RequestEmail) /\ ~isValidEmail(RequestEmail)) =>
        /\ Done
        /\ Len(responses) = 1
        /\ responses[1].status = 400
        /\ calls = <<>>

\* C7 (as claimed): the tags of every update body are existing + "," + new
\* when the found customer's tags are non-empty, and new otherwise, where new
\* is the tags value of the request.
C7_TagsConcatenated ==
    ObjectPost =>
        \A i \in CallsOf("update") :
            calls[i].tags =
                IF FoundCustomers[1].tags.s # <<>>
                THEN Joined(FoundCustomers[1].tags, RequestTags)
                ELSE RequestTags

\* C8 (as claimed): an invocation issues at most two outbound calls.
C8_AtMostTwoCalls == Len(calls) <= 2

KindRank(kind) ==
    CASE kind = "search" -> 1
      [] kind = "update" -> 2
      [] OTHER -> 3

\* C8 (amended): an invocation issues at most three outbound calls: at most
\* one search, then at most one update, then at most one create; a create
\* follows an update only when the update was answered non-success.
C8_AtMostThreeCalls ==
    /\ Len(calls) <= 3
    /\ \A i, j \in 1..Len(calls) :
          i < j => KindRank(calls[i].kind) < KindRank(calls[j].kind)
    /\ \A i \in CallsOf("update") :
          i < Len(calls) => AnsweredNotOk(i)

\* C8 witness: search, failed update and create were all issued and settled.
C8_Witness ==
    /\ Len(calls) = 3
    /\ Len(results) = 3
    /\ Done

\* C9 (as claimed): an update or create call is issued only after a search
\* call of the invocation was answered with success, and no call is issued
\* while another is pending.
C9_SearchFirstSequential ==
    /\ \A i \in CallsOf("update") \cup CallsOf("create") :
          \E j \in CallsOf("search") : j < i /\ AnsweredOk(j)
    /\ Len(calls) <= Len(results) + 1

\* C10 (as claimed): whenever the create call is answered non-success, the
\* response is a 500 whose details carry the upstream status and body.
C10_CreateFailureIs500 ==
    \A i \in CallsOf("create") :
        AnsweredNotOk(i) =>
            /\ Len(responses) = 1
            /\ responses[1].status = 500
            /\ NamesStatus(responses[1], results[i])
            /\ Holds(responses[1].details, results[i].body)

\* The last settled call was of this kind and was answered with success.
Follows(kind) ==
    /\ results # <<>>
    /\ calls[Len(results)].kind = kind
    /\ AnsweredOk(Len(results))

\* C11 (as claimed): every 200 response to a POST follows a successful update
\* or a successful create, and carries existing_customer true exactly after
\* the update and false exactly after the create.
C11_FlagTellsUpdateFromCreate ==
    (IsPost /\ responses # <<>> /\ responses[1].status = 200) =>
        /\ Follows("update") \/ Follows("create")
        /\ responses[1].existing_customer = "true" <=> Follows("update")
        /\ responses[1].existing_customer = "false" <=> Follows("create")

\* C12 (as claimed): a POST whose body is undefined, null or a string that is
\* not JSON is answered 400 with the parse-failure error, and no outbound
\* call is issued.
C12_BadBodyIs400 ==
    (IsPost /\ req.body.kind \in {"undefined", "null", "badString"}) =>
        /\ Done
        /\ Len(responses) = 1
        /\ responses[1].status = 400
        /\ responses[1].error = "Invalid JSON in request body"
        /\ calls = <<>>

\* The handler has been invoked with a request.
Invoked == pc # "idle"

\* C14: on every path, given that every issued fetch settles, an invoked
\* handler ends having sent exactly one response: it never sends a second
\* one, it sends none before it is invoked, and it does send one.
C14_ExactlyOneResponse ==
    /\ [](Len(responses) <= 1)
    /\ [](Done <=> Len(responses) = 1)
    /\ [](Invoked => <>(Done /\ Len(responses) = 1))

\* C14 witness: the longest path, ended by an exception: search, failed
\* update, and a create fetch that rejected, answered from the catch block.
C14_Witness ==
    /\ Len(results) = 3
    /\ results[3].thrown
    /\ Done
    /\ Len(responses) = 1

\* The customers the platform holds under the e-mail of the request.
RemoteWithEmail == {k \in 1..Len(remote) : remote[k].email = RaceEmail}

\* C13 (as claimed): starting with at most one customer for the e-mail, and
\* with every create accepted, concurrent invocations for that e-mail leave
\* at most one remote customer with it.
C13_OneCustomerPerEmail == Cardinality(RemoteWithEmail) <= 1

====
